---- MODULE Spec2Model ----
(***************************************************************************)
(* Aker SSH gateway: the session proxy engine.                             *)
(*                                                                         *)
(*   SpecLoop    SSHClient.interactive_shell, the multiplexing loop, with  *)
(*               the SIGWINCH handler SSHClient.sigwinch                   *)
(*   SpecLoopFair the same loop, whose statements run when they can        *)
(*   SpecSession one proxied session from Session.connect to stop_sniffer  *)
(*               (credential chain, dispatch, teardown, late SIGWINCH)     *)
(*   SpecMain    main(): parsing of SSH_ORIGINAL_COMMAND, the terminal     *)
(*               size and the dispatch of the session it starts            *)
(*                                                                         *)
(* The remote byte stream and the local input stream are each one stream;  *)
(* a byte is named by its position in its stream (1, 2, 3, ...), so a read *)
(* of n bytes returns the next n positions.  Loss, duplication and         *)
(* reordering are then visible as a difference of sequences.               *)
(***************************************************************************)
EXTENDS Integers, Sequences, FiniteSets, TLC

\* ---------------------------------------------------------------- bounds
MaxReads == 2
MaxChunk == 2
MaxStdin == 1
MaxNotify == 2
NumObs == 2
MaxKeys == 2
MaxCmdLen == 3
MaxLateSignals == 1

\* ------------------------------------------------------- program constants
DefaultPort == 22

VARIABLES
    \* interactive_shell
    focus,        \* which of the loop's three inputs this run explores in depth
    lpc,          \* position in interactive_shell
    tty,          \* termios attributes of sys.stdin (set of enabled flags)
    ttyBefore,    \* history: the attributes before interactive_shell was called
    oldtty,       \* local variable oldtty
    restores,     \* history: number of tcsetattr(oldtty) calls
    exitCause,    \* history: how the while loop ended
    r,            \* the ready list returned by select
    nonblock,     \* O_NONBLOCK of the sys.stdin descriptor
    nonblockBefore, \* history: O_NONBLOCK before interactive_shell was called
    nreads,       \* number of non-empty channel.recv results so far
    recvd,        \* history: bytes returned by channel.recv, in order
    out,          \* bytes accepted by os.write(sys.stdout)
    wres,         \* history: the outcome of the last os.write
    chanLog,      \* per sniffer: arguments of its channel_filter calls
    nstdin,       \* number of os.read(sys.stdin) results so far
    stdinRead,    \* history: bytes returned by os.read(sys.stdin), in order
    stdinEof,     \* sys.stdin is at end of file (a zero-length read happened)
    sent,         \* bytes accepted by channel.send
    stdinLog,     \* per sniffer: arguments of its stdin_filter calls
    \* SIGWINCH
    sigPending,   \* a SIGWINCH is pending for the interpreter
    termSize,     \* the local terminal's current (columns, lines)
    notes,        \* history: the resize notifications, in order
    ptySize,      \* size of the remote pseudo-terminal
    resizeLog,    \* per sniffer: arguments of its sigwinch calls
    \* session
    spc,          \* position in the session's control flow
    events,       \* history: teardown and credential events, in order
    agentKeys,    \* agent.get_keys(): per key, whether the target accepts it
    fileLoadable, \* ~/.ssh/id_rsa can be loaded
    fileAccepted, \* the target accepts the key of ~/.ssh/id_rsa
    pwAccepted,   \* the target accepts the password typed at the prompt
    secret,       \* auth_secret returned by get_priv_key
    authBy,       \* the credential method the target accepted
    exc,          \* an exception is propagating
    failure,      \* history: the step that raised first
    stops,        \* per sniffer: number of calls of its stop hook
    closeCalls,   \* history: number of Session.close_session calls
    notified,     \* number of Aker.session_end_callback notifications
    \* main
    mpc,          \* position in main
    envSet,       \* SSH_ORIGINAL_COMMAND is in os.environ
    command,      \* the value of SSH_ORIGINAL_COMMAND
    host,         \* target host handed to SSHSession
    port,         \* Session.host_port
    caller,       \* the caller's terminal, <<columns, lines>>
    sizeEnv,      \* LINES and COLUMNS are in os.environ
    screen_size,  \* the size handed to Session.connect, <<>> before
    pty,          \* <<width, height>> of channel.get_pty, <<>> before
    dispatched    \* "none", "shell" (invoke_shell) or "exec" (exec_command)

loopVars == <<focus, nonblockBefore, stdinEof, lpc, tty, ttyBefore, oldtty, restores, exitCause, r, nonblock,
              nreads, recvd, out, wres, chanLog, nstdin, stdinRead, sent, stdinLog,
              sigPending, termSize, notes, ptySize, resizeLog>>
sessVars == <<spc, events, agentKeys, fileLoadable, fileAccepted, pwAccepted,
              secret, authBy, exc, failure, stops, closeCalls, notified>>
mainVars == <<mpc, envSet, command, host, port, caller, sizeEnv, screen_size, pty, dispatched>>
vars == <<loopVars, sessVars, mainVars>>

\* ----------------------------------------------------------------- helpers
Obs == 1..NumObs

Range(s) == {s[i] : i \in 1..Len(s)}

Count(s, e) == Cardinality({i \in 1..Len(s) : s[i] = e})

\* the next n bytes of a stream of which `have` were already returned
NextBytes(have, n) == [i \in 1..n |-> Len(have) + i]

\* `for sniffer in self.sniffers: sniffer.<hook>(x)`: the hooks run in
\* attachment order; failAt = 0 when no hook raises, else the first sniffer
\* whose hook raises, which ends the for loop.
InvokeAll(log, x, failAt) ==
    [o \in Obs |-> IF failAt = 0 \/ o <= failAt THEN Append(log[o], x) ELSE log[o]]

\* ------------------------------------------------------------ terminal mode
Flags == {"ECHO", "ICANON", "ISIG", "OPOST"}
\* cooked, cbreak-like and raw terminals
TtyModes == {Flags, {"ISIG", "OPOST"}, {}}

setraw(mode) == mode \ {"ECHO", "ICANON", "ISIG", "OPOST"}
setcbreak(mode) == mode \ {"ECHO", "ICANON"}

\* the finally clause of interactive_shell
tcsetattr_no_finally(cause, saved, cur) == IF cause = "remote_close" THEN saved ELSE cur
tcsetattr_finally(cause, saved, cur) == saved

Sizes == {<<80, 24>>, <<132, 43>>}

\* ------------------------------------------------------------------- idle
\* values of the variables a specification does not use
IdleLoop ==
    /\ focus = "none" /\ lpc = "idle" /\ tty = {} /\ ttyBefore = {} /\ oldtty = {} /\ restores = 0
    /\ exitCause = "none" /\ r = {} /\ nonblock = FALSE /\ nonblockBefore = FALSE
    /\ stdinEof = FALSE
    /\ nreads = 0 /\ recvd = <<>> /\ out = <<>> /\ wres = "none"
    /\ chanLog = [o \in Obs |-> <<>>]
    /\ nstdin = 0 /\ stdinRead = <<>> /\ sent = <<>> /\ stdinLog = [o \in Obs |-> <<>>]
    /\ sigPending = FALSE /\ termSize = <<80, 24>> /\ notes = <<>>
    /\ ptySize = <<80, 24>> /\ resizeLog = [o \in Obs |-> <<>>]
IdleSession ==
    /\ spc = "idle" /\ events = <<>> /\ agentKeys = <<>> /\ fileLoadable = FALSE
    /\ fileAccepted = FALSE /\ pwAccepted = FALSE /\ secret = "none"
    /\ authBy = "none" /\ exc = FALSE /\ failure = "none"
    /\ stops = [o \in Obs |-> 0] /\ closeCalls = 0 /\ notified = 0
IdleMain ==
    /\ mpc = "idle" /\ envSet = FALSE /\ command = <<>> /\ host = <<>> /\ port = 0
    /\ caller = <<80, 24>> /\ sizeEnv = FALSE /\ screen_size = <<>> /\ pty = <<>>
    /\ dispatched = "none"

\* ========================================================= interactive_shell
\* The bounded exploration is the union of three slices: each explores one
\* input of the loop (remote channel, local input, resize notifications) up to
\* its bound and the other two up to one event of one byte.
ReadBudget == IF focus = "chan" THEN MaxReads ELSE 1
StdinBudget == IF focus = "stdin" THEN MaxStdin ELSE 1
NotifyBudget == IF focus = "resize" THEN MaxNotify ELSE 1
RecvChunk == IF focus = "chan" THEN MaxChunk ELSE 1
StdinChunk == IF focus = "stdin" THEN MaxChunk ELSE 1

InitLoop ==
    /\ focus \in {"chan", "stdin", "resize"}
    /\ lpc = "entry"
    /\ tty \in TtyModes
    /\ ttyBefore = tty
    /\ oldtty = {}
    /\ restores = 0
    /\ exitCause = "none"
    /\ r = {}
    /\ nonblock \in BOOLEAN
    /\ nonblockBefore = nonblock
    /\ stdinEof = FALSE
    /\ nreads = 0 /\ recvd = <<>> /\ out = <<>> /\ wres = "none"
    /\ chanLog = [o \in Obs |-> <<>>]
    /\ nstdin = 0 /\ stdinRead = <<>> /\ sent = <<>> /\ stdinLog = [o \in Obs |-> <<>>]
    /\ sigPending = FALSE
    /\ termSize = <<80, 24>>
    /\ notes = <<>>
    /\ ptySize = termSize
    /\ resizeLog = [o \in Obs |-> <<>>]

Running == lpc \in {"wait", "chan", "stdin"}

\* leaving the try block: the finally clause runs, then the function ends
LoopExit(cause) ==
    /\ lpc' = "done"
    /\ exitCause' = cause
    /\ tty' = tcsetattr_finally(cause, oldtty, tty)
    /\ restores' = restores + 1

LoopStay(next) ==
    /\ lpc' = next
    /\ UNCHANGED <<exitCause, tty, restores>>

\* oldtty = tcgetattr; try: setraw; setcbreak; settimeout(0.0)
interactive_shell_enter ==
    /\ lpc = "entry"
    /\ oldtty' = tty
    /\ tty' = setcbreak(setraw(tty))
    /\ lpc' = "wait"
    /\ UNCHANGED <<focus, nonblockBefore, stdinEof, ttyBefore, restores, exitCause, r, nonblock, nreads, recvd, out, wres,
                   chanLog, nstdin, stdinRead, sent, stdinLog, sigPending, termSize,
                   notes, ptySize, resizeLog>>
    /\ UNCHANGED <<sessVars, mainVars>>

\* r, w, e = select.select([channel, stdin], [], []); fcntl(F_SETFL, flag | O_NONBLOCK)
interactive_shell_select ==
    /\ lpc = "wait"
    /\ \E ready \in (SUBSET {"chan", "stdin"}) \ {{}} :
          /\ r' = ready
          /\ lpc' = IF "chan" \in ready THEN "chan" ELSE "stdin"
    /\ nonblock' = TRUE
    /\ UNCHANGED <<focus, nonblockBefore, stdinEof, tty, ttyBefore, oldtty, restores, exitCause, nreads, recvd, out, wres,
                   chanLog, nstdin, stdinRead, sent, stdinLog, sigPending, termSize,
                   notes, ptySize, resizeLog>>
    /\ UNCHANGED <<sessVars, mainVars>>

AfterChan == IF "stdin" \in r THEN "stdin" ELSE "wait"

\* os.write(sys.stdout.fileno(), x): the bytes of x the descriptor accepted.
\* "full": all of x; "partial": the first k bytes; "eagain": OSError(EAGAIN),
\* nothing written; "oserror": another OSError, nothing written.
os_write(x, w, k) ==
    CASE w = "full" -> x
      [] w = "partial" -> SubSeq(x, 1, k)
      [] OTHER -> <<>>

\* if self.channel in r: the body of lines 161-178
interactive_shell_recv ==
    /\ lpc = "chan"
    /\ \/ \* len(x) == 0: break
          /\ LoopExit("remote_close")
          /\ UNCHANGED <<nreads, recvd, out, wres, chanLog>>
       \/ \* socket.timeout: pass
          /\ LoopStay(AfterChan)
          /\ UNCHANGED <<nreads, recvd, out, wres, chanLog>>
       \/ \* any other exception of recv leaves the try block
          /\ LoopExit("io_error")
          /\ UNCHANGED <<nreads, recvd, out, wres, chanLog>>
       \/ \* x = channel.recv(10240), len(x) > 0
          /\ nreads < ReadBudget
          /\ \E n \in 1..RecvChunk, failAt \in 0..NumObs,
                w \in {"full", "partial", "eagain", "oserror"}, k \in 0..RecvChunk :
                LET x == NextBytes(recvd, n) IN
                /\ IF w = "partial" THEN 0 < k /\ k < n ELSE k = 0
                /\ failAt # 0 => w = "full"
                /\ nreads' = nreads + 1
                /\ recvd' = recvd \o x
                /\ chanLog' = InvokeAll(chanLog, x, failAt)
                /\ IF failAt # 0
                   THEN \* channel_filter raised: the exception leaves the try block
                        /\ LoopExit("hook_error")
                        /\ UNCHANGED <<out, wres>>
                   ELSE /\ out' = out \o os_write(x, w, k)
                        /\ wres' = w
                        /\ IF w = "eagain"
                           THEN LoopStay("wait")      \* continue
                           ELSE LoopStay(AfterChan)
    /\ UNCHANGED <<focus, nonblockBefore, stdinEof, ttyBefore, oldtty, r, nonblock, nstdin, stdinRead, sent, stdinLog,
                   sigPending, termSize, notes, ptySize, resizeLog>>
    /\ UNCHANGED <<sessVars, mainVars>>

\* channel.send(buf): the bytes of buf the channel accepted (the first k)
channel_send(buf, k) == SubSeq(buf, 1, k)

\* if sys.stdin in r: the body of lines 179-184.  A stream at end of file
\* stays there: every later read is zero-length too.  The histories keep the
\* first zero-length read; the later ones repeat it.
interactive_shell_stdin ==
    /\ lpc = "stdin"
    /\ \/ \* os.read raises (EAGAIN on the non-blocking descriptor, EIO, ...)
          /\ LoopExit("io_error")
          /\ UNCHANGED <<nstdin, stdinRead, stdinEof, sent, stdinLog>>
       \/ \* buf = os.read(sys.stdin.fileno(), 4096); len(buf) = 0 at end of file
          /\ ~stdinEof
          /\ nstdin < StdinBudget
          /\ \E n \in 0..StdinChunk, failAt \in 0..NumObs, s \in {"ok", "error"},
                k \in 0..StdinChunk :
                LET buf == NextBytes(stdinRead, n) IN
                /\ k <= n
                /\ (n > 0 /\ s = "ok") => k > 0
                /\ s = "error" => k = 0
                /\ failAt # 0 => (k = 0 /\ s = "ok")
                /\ nstdin' = nstdin + 1
                /\ stdinRead' = stdinRead \o buf
                /\ stdinEof' = (n = 0)
                /\ stdinLog' = InvokeAll(stdinLog, buf, failAt)
                /\ IF failAt # 0
                   THEN \* stdin_filter raised
                        /\ LoopExit("hook_error")
                        /\ sent' = sent
                   ELSE IF s = "error"
                   THEN \* channel.send raised (socket.timeout, socket.error)
                        /\ LoopExit("io_error")
                        /\ sent' = sent
                   ELSE /\ sent' = sent \o channel_send(buf, k)
                        /\ LoopStay("wait")
       \/ \* buf = '' again: the hooks get '', channel.send('') returns 0
          /\ stdinEof
          /\ \E failAt \in 0..NumObs :
                IF failAt # 0 THEN LoopExit("hook_error") ELSE LoopStay("wait")
          /\ UNCHANGED <<nstdin, stdinRead, stdinEof, sent, stdinLog>>
    /\ UNCHANGED <<focus, nonblockBefore, ttyBefore, oldtty, r, nonblock, nreads, recvd, out, wres,
                   chanLog, sigPending, termSize, notes, ptySize, resizeLog>>
    /\ UNCHANGED <<sessVars, mainVars>>

\* --------------------------------------------------------------- SIGWINCH
\* The terminal is resized: the kernel records the new size and raises
\* SIGWINCH.  A standard signal does not queue: a SIGWINCH raised while one is
\* pending is merged with it.
resize_notification ==
    /\ Running
    /\ Len(notes) < NotifyBudget
    /\ \E sz \in Sizes \ {termSize} :
          /\ termSize' = sz
          /\ notes' = Append(notes, sz)
    /\ sigPending' = TRUE
    /\ UNCHANGED <<focus, nonblockBefore, stdinEof, lpc, tty, ttyBefore, oldtty, restores, exitCause, r, nonblock,
                   nreads, recvd, out, wres, chanLog, nstdin, stdinRead, sent, stdinLog,
                   ptySize, resizeLog>>
    /\ UNCHANGED <<sessVars, mainVars>>

\* columns, lines = self.get_console_dimensions()
get_console_dimensions == termSize

\* The interpreter runs the handler of the pending SIGWINCH in the main
\* thread: between two statements of the loop, or out of the select call it
\* interrupts.  An exception of the handler is raised at that point, inside
\* the try block.  A select that was interrupted either is retried
\* (PEP 475) or raises select.error(EINTR) (interpreters before it).  The
\* handler is one step: a SIGWINCH raised while it runs stays pending until
\* it has returned.
sigwinch ==
    /\ Running
    /\ sigPending
    /\ sigPending' = FALSE
    /\ \E resized \in BOOLEAN, failAt \in 0..NumObs, eintr \in BOOLEAN :
          LET size == get_console_dimensions IN
          /\ ~resized => failAt = 0
          /\ (eintr => lpc = "wait" /\ resized /\ failAt = 0)
          /\ IF resized
             THEN /\ ptySize' = size
                  /\ resizeLog' = InvokeAll(resizeLog, size, failAt)
             ELSE \* channel.resize_pty raised
                  UNCHANGED <<ptySize, resizeLog>>
          /\ IF ~resized \/ failAt # 0
             THEN LoopExit("signal_error")
             ELSE IF eintr
             THEN LoopExit("select_error")
             ELSE LoopStay(lpc)
    /\ UNCHANGED <<focus, nonblockBefore, stdinEof, ttyBefore, oldtty, r, nonblock, nreads, recvd, out, wres, chanLog,
                   nstdin, stdinRead, sent, stdinLog, termSize, notes>>
    /\ UNCHANGED <<sessVars, mainVars>>

\* aker.signal_handler, the handler of SIGINT: it writes a log record.  Like
\* SIGWINCH, a SIGINT that interrupts select either lets it be retried or
\* makes it raise select.error(EINTR).
signal_handler ==
    /\ Running
    /\ \E eintr \in BOOLEAN :
          /\ eintr => lpc = "wait"
          /\ IF eintr THEN LoopExit("select_error") ELSE LoopStay(lpc)
    /\ UNCHANGED <<focus, nonblockBefore, stdinEof, ttyBefore, oldtty, r, nonblock, nreads,
                   recvd, out, wres, chanLog, nstdin, stdinRead, sent, stdinLog,
                   sigPending, termSize, notes, ptySize, resizeLog>>
    /\ UNCHANGED <<sessVars, mainVars>>

NextLoop ==
    \/ interactive_shell_enter
    \/ interactive_shell_select
    \/ interactive_shell_recv
    \/ interactive_shell_stdin
    \/ resize_notification
    \/ sigwinch
    \/ signal_handler

LoopInit == InitLoop /\ IdleSession /\ IdleMain

SpecLoop == LoopInit /\ [][NextLoop]_vars

\* The loop is the only thread of the session: a statement that can run does
\* run.  What select, recv and os.read return is the environment's choice.
SpecLoopFair ==
    /\ SpecLoop
    /\ WF_vars(interactive_shell_enter)
    /\ WF_vars(interactive_shell_select)
    /\ WF_vars(interactive_shell_recv)
    /\ WF_vars(interactive_shell_stdin)

\* ================================================================== session
\* One proxied session, as main (lines 205-209) and Aker.init_connection
\* (lines 160-164) run it:
\*     session.connect(size)
\*     try: session.start_session()
\*     finally: session.stop_sniffer()
KeySeqs == UNION {[1..n -> BOOLEAN] : n \in 0..MaxKeys}

InitSession ==
    /\ spc = "connect"
    /\ events = <<>>
    /\ agentKeys \in KeySeqs
    /\ fileLoadable \in BOOLEAN
    /\ fileAccepted \in BOOLEAN
    /\ pwAccepted \in BOOLEAN
    /\ secret = "none"
    /\ authBy = "none"
    /\ exc = FALSE
    /\ failure = "none"
    /\ stops = [o \in Obs |-> 0]
    /\ closeCalls = 0
    /\ notified = 0

Raise(step) ==
    /\ exc' = TRUE
    /\ failure' = IF failure = "none" THEN step ELSE failure

\* Session.close_session -> Aker.session_end_callback: one "Finished session"
\* record per call
close_session ==
    /\ closeCalls' = closeCalls + 1
    /\ notified' = notified + 1
    /\ events' = Append(events, "callback")

\* Session.connect -> SSHClient.connect, called before the try statement
connect ==
    /\ spc = "connect"
    /\ \/ /\ events' = Append(events, "socket_open")
          /\ spc' = "get_priv_key"
          /\ UNCHANGED <<exc, failure>>
       \/ \* socket.connect raised: nothing after it runs
          /\ Raise("connect")
          /\ spc' = "aborted"
          /\ UNCHANGED events
    /\ UNCHANGED <<agentKeys, fileLoadable, fileAccepted, pwAccepted, secret, authBy,
                   stops, closeCalls, notified>>
    /\ UNCHANGED <<loopVars, mainVars>>

\* User.get_priv_key: the credential handed to SSHClient.start_session
get_priv_key_agent_first(keys) == IF keys # <<>> THEN "agent" ELSE "file"

\* SSHSession.start_session line 62, before its try statement
get_priv_key ==
    /\ spc = "get_priv_key"
    /\ IF get_priv_key_agent_first(agentKeys) = "agent"
       THEN \* return keys[0]
            /\ secret' = "agent"
            /\ spc' = "get_transport"
            /\ UNCHANGED <<events, exc, failure>>
       ELSE /\ events' = Append(events, "file_read")
            /\ IF fileLoadable
               THEN /\ secret' = "file"
                    /\ spc' = "get_transport"
                    /\ UNCHANGED <<exc, failure>>
               ELSE \* raise Exception("Core: Invalid Private Key")
                    /\ Raise("key")
                    /\ spc' = "stop_sniffer"
                    /\ UNCHANGED secret
    /\ UNCHANGED <<agentKeys, fileLoadable, fileAccepted, pwAccepted, authBy,
                   stops, closeCalls, notified>>
    /\ UNCHANGED <<loopVars, mainVars>>

\* SSHClient.start_session line 74, before its try statement; an exception is
\* caught by SSHSession.start_session (except Exception)
get_transport ==
    /\ spc = "get_transport"
    /\ \/ /\ events' = Append(events, "transport_open")
          /\ spc' = "auth_publickey"
          /\ UNCHANGED failure
       \/ /\ failure' = "transport"
          /\ spc' = "stop_sniffer"
          /\ UNCHANGED events
    /\ UNCHANGED <<agentKeys, fileLoadable, fileAccepted, pwAccepted, secret, authBy,
                   exc, stops, closeCalls, notified>>
    /\ UNCHANGED <<loopVars, mainVars>>

\* except paramiko.ssh_exception.AuthenticationException: the password prompt
\* is reached when auth_publickey was rejected
password_fallback_always(accepted) == TRUE
password_fallback(accepted) == ~accepted

\* SSHClient.start_session lines 76-83 (auth_secret is a key, not a string)
auth_publickey ==
    /\ spc = "auth_publickey"
    /\ LET accepted == IF secret = "agent" THEN agentKeys[1] ELSE fileAccepted IN
       /\ events' = Append(events, IF secret = "agent" THEN "auth_agent" ELSE "auth_file")
       /\ authBy' = IF accepted THEN secret ELSE authBy
       /\ spc' = IF password_fallback(accepted) THEN "auth_password" ELSE "open_session"
    /\ UNCHANGED <<agentKeys, fileLoadable, fileAccepted, pwAccepted, secret,
                   exc, failure, stops, closeCalls, notified>>
    /\ UNCHANGED <<loopVars, mainVars>>

\* SSHClient.start_session lines 84-85: transport.auth_password(user, getpass.getpass())
auth_password ==
    /\ spc = "auth_password"
    /\ events' = Append(events, "prompt")
    /\ IF pwAccepted
       THEN /\ authBy' = "password"
            /\ spc' = "open_session"
            /\ UNCHANGED <<exc, failure>>
       ELSE /\ Raise("auth")
            /\ spc' = "finally_close_session"
            /\ UNCHANGED authBy
    /\ UNCHANGED <<agentKeys, fileLoadable, fileAccepted, pwAccepted, secret,
                   stops, closeCalls, notified>>
    /\ UNCHANGED <<loopVars, mainVars>>

\* SSHClient._start_session lines 108-115: open_session, get_pty, signal, logs
open_session ==
    /\ spc = "open_session"
    /\ \/ /\ events' = Append(events, "channel_open")
          /\ spc' = "dispatch"
          /\ UNCHANGED <<exc, failure>>
       \/ /\ Raise("channel")
          /\ spc' = "finally_close_session"
          /\ UNCHANGED events
    /\ UNCHANGED <<agentKeys, fileLoadable, fileAccepted, pwAccepted, secret, authBy,
                   stops, closeCalls, notified>>
    /\ UNCHANGED <<loopVars, mainVars>>

\* SSHClient._start_session lines 116-122: invoke_shell or exec_command, then
\* the multiplexing loop; the loop restores the terminal before it returns or
\* raises (SpecLoop)
dispatch ==
    /\ spc = "dispatch"
    /\ \/ \* the loop returned (remote close)
          /\ events' = Append(events, "tty_restore")
          /\ spc' = "channel_close"
          /\ UNCHANGED <<exc, failure>>
       \/ \* the loop raised
          /\ events' = Append(events, "tty_restore")
          /\ Raise("loop")
          /\ spc' = "finally_close_session"
       \/ \* invoke_shell, exec_command or a stdin_filter of run_command raised
          /\ Raise("dispatch")
          /\ spc' = "finally_close_session"
          /\ UNCHANGED events
    /\ UNCHANGED <<agentKeys, fileLoadable, fileAccepted, pwAccepted, secret, authBy,
                   stops, closeCalls, notified>>
    /\ UNCHANGED <<loopVars, mainVars>>

SessionInputs == <<agentKeys, fileLoadable, fileAccepted, pwAccepted, secret, authBy>>

\* The record of one close call: the call returned, or it raised
Failed(step) ==
    CASE step = "channel_close" -> "channel_close_failed"
      [] step = "transport_close" -> "transport_close_failed"
      [] step = "socket_close" -> "socket_close_failed"

Attempted(step) == step \in Range(events) \/ Failed(step) \in Range(events)

\* A close statement of _start_session (lines 123, 125, 126): when it raises,
\* the statements after it are skipped and the finally clause of
\* start_session runs
StartSessionClose(step, next) ==
    \E ok \in BOOLEAN :
       /\ events' = Append(events, IF ok THEN step ELSE Failed(step))
       /\ IF ok THEN spc' = next /\ UNCHANGED <<exc, failure>>
                ELSE spc' = "finally_close_session" /\ Raise("teardown")

\* A close statement of the finally clause (lines 89-91): when it raises, the
\* rest of the clause is skipped and SSHSession.start_session catches the
\* exception (except Exception)
FinallyClose(step, next) ==
    \E ok \in BOOLEAN :
       /\ events' = Append(events, IF ok THEN step ELSE Failed(step))
       /\ IF ok THEN spc' = next /\ UNCHANGED <<exc, failure>>
                ELSE /\ spc' = "stop_sniffer"
                     /\ exc' = FALSE
                     /\ failure' = IF failure = "none" THEN "teardown" ELSE failure

\* SSHClient._start_session line 123
channel_close ==
    /\ spc = "channel_close"
    /\ StartSessionClose("channel_close", "close_session_1")
    /\ UNCHANGED <<SessionInputs, stops, closeCalls, notified>>
    /\ UNCHANGED <<loopVars, mainVars>>

\* SSHClient._start_session line 124
start_session_close_session ==
    /\ spc = "close_session_1"
    /\ close_session
    /\ spc' = "transport_close_1"
    /\ UNCHANGED <<SessionInputs, exc, failure, stops>>
    /\ UNCHANGED <<loopVars, mainVars>>

\* SSHClient._start_session line 125
start_session_transport_close ==
    /\ spc = "transport_close_1"
    /\ StartSessionClose("transport_close", "socket_close_1")
    /\ UNCHANGED <<SessionInputs, stops, closeCalls, notified>>
    /\ UNCHANGED <<loopVars, mainVars>>

\* SSHClient._start_session line 126; then the finally clause of start_session
start_session_socket_close ==
    /\ spc = "socket_close_1"
    /\ StartSessionClose("socket_close", "finally_close_session")
    /\ UNCHANGED <<SessionInputs, stops, closeCalls, notified>>
    /\ UNCHANGED <<loopVars, mainVars>>

\* SSHClient.start_session line 88
finally_close_session ==
    /\ spc = "finally_close_session"
    /\ close_session
    /\ spc' = "finally_transport_close"
    /\ UNCHANGED <<SessionInputs, exc, failure, stops>>
    /\ UNCHANGED <<loopVars, mainVars>>

\* SSHClient.start_session lines 89-90
finally_transport_close ==
    /\ spc = "finally_transport_close"
    /\ FinallyClose("transport_close", "finally_socket_close")
    /\ UNCHANGED <<SessionInputs, stops, closeCalls, notified>>
    /\ UNCHANGED <<loopVars, mainVars>>

\* SSHClient.start_session line 91; an exception that was propagating is then
\* caught by SSHSession.start_session (except Exception)
finally_socket_close ==
    /\ spc = "finally_socket_close"
    /\ \E ok \in BOOLEAN :
          events' = Append(events, IF ok THEN "socket_close" ELSE Failed("socket_close"))
    /\ exc' = FALSE
    /\ failure' = failure
    /\ spc' = "stop_sniffer"
    /\ UNCHANGED <<SessionInputs, stops, closeCalls, notified>>
    /\ UNCHANGED <<loopVars, mainVars>>

\* The channel no longer takes requests: channel.close() returned, or the
\* transport that carries it was closed
ChannelClosed == "channel_close" \in Range(events) \/ "transport_close" \in Range(events)

\* SIGWINCH after the channel was closed.  signal.signal(SIGWINCH,
\* self.sigwinch) of _start_session is never undone, so Client.sigwinch still
\* runs: it calls self.channel.resize_pty, and when that returns, the sigwinch
\* hook of every sniffer of the session.  When resize_pty raises, the
\* exception surfaces in the statement the signal interrupted.
late_sigwinch ==
    /\ "channel_open" \in Range(events)
    /\ ChannelClosed
    /\ spc \in {"close_session_1", "transport_close_1", "socket_close_1",
                "finally_close_session", "finally_transport_close",
                "finally_socket_close", "stop_sniffer", "done"}
    /\ Count(events, "resize_pty") < MaxLateSignals
    /\ \E raised \in BOOLEAN :
          IF ~raised
          THEN /\ events' = events \o <<"resize_pty", "sniffer_sigwinch">>
               /\ UNCHANGED <<spc, exc, failure>>
          ELSE /\ events' = Append(events, "resize_pty")
               /\ IF spc \in {"close_session_1", "transport_close_1", "socket_close_1"}
                  THEN \* inside _start_session: on to the finally clause
                       /\ spc' = "finally_close_session"
                       /\ Raise("signal")
                  ELSE IF spc \in {"finally_close_session", "finally_transport_close",
                                   "finally_socket_close"}
                  THEN \* inside the finally clause: the rest of it is skipped
                       /\ spc' = "stop_sniffer"
                       /\ exc' = FALSE
                       /\ failure' = IF failure = "none" THEN "signal" ELSE failure
                  ELSE \* after start_session: stop_sniffer is skipped
                       /\ spc' = "done"
                       /\ Raise("signal")
    /\ UNCHANGED <<SessionInputs, stops, closeCalls, notified>>
    /\ UNCHANGED <<loopVars, mainVars>>

\* A variant in which the sniffers are stopped before the closes of the
\* finally clause
AfterStopCloses(evts) ==
    IF "stop_sniffer" \in Range(evts) THEN "done" ELSE "finally_transport_close"

\* main / init_connection: stop_sniffer is the last statement of the finally
\* clause around start_session; nothing of the session runs after it
AfterStop(evts) == "done"

\* Client.stop_sniffer, from the finally clause of main / init_connection
stop_sniffer ==
    /\ spc = "stop_sniffer"
    /\ \E failAt \in 0..NumObs :
          /\ stops' = [o \in Obs |-> IF failAt = 0 \/ o <= failAt
                                       THEN stops[o] + 1 ELSE stops[o]]
          /\ IF failAt # 0 THEN Raise("stop") ELSE UNCHANGED <<exc, failure>>
    /\ events' = Append(events, "stop_sniffer")
    /\ spc' = AfterStop(events)
    /\ UNCHANGED <<SessionInputs, closeCalls, notified>>
    /\ UNCHANGED <<loopVars, mainVars>>

NextSession ==
    \/ connect
    \/ get_priv_key
    \/ get_transport
    \/ auth_publickey
    \/ auth_password
    \/ open_session
    \/ dispatch
    \/ channel_close
    \/ start_session_close_session
    \/ start_session_transport_close
    \/ start_session_socket_close
    \/ finally_close_session
    \/ finally_transport_close
    \/ finally_socket_close
    \/ stop_sniffer
    \/ late_sigwinch

SessionInit == IdleLoop /\ InitSession /\ IdleMain

SpecSession == SessionInit /\ [][NextSession]_vars

\* ===================================================================== main
\* A command is a sequence of symbols: the literals "host=" and "port=", a
\* digit, another character, and the space.
Symbols == {"host=", "port=", "2", "x", " "}
Commands == UNION {[1..n -> Symbols] : n \in 0..MaxCmdLen}
None == <<"None">>

RECURSIVE lstrip(_)
lstrip(s) == IF s # <<>> /\ Head(s) = " " THEN lstrip(Tail(s)) ELSE s

RECURSIVE rstrip(_)
rstrip(s) ==
    IF s # <<>> /\ s[Len(s)] = " " THEN rstrip(SubSeq(s, 1, Len(s) - 1)) ELSE s

\* str.strip()
strip(s) == rstrip(lstrip(s))

\* str.split(' '): the pieces between single spaces, empty pieces included
RECURSIVE split(_, _)
split(s, cur) ==
    IF s = <<>> THEN <<cur>>
    ELSE IF Head(s) = " " THEN <<cur>> \o split(Tail(s), <<>>)
    ELSE split(Tail(s), Append(cur, Head(s)))

startswith(term, lit) == term # <<>> /\ Head(term) = lit

\* term[5:] of a term that starts with a five-character literal
after_literal(term) == Tail(term)

\* the for loop of main, lines 184-188: the last matching term wins
RECURSIVE scan_host(_, _)
scan_host(terms, h) ==
    IF terms = <<>> THEN h
    ELSE scan_host(Tail(terms),
                   IF startswith(Head(terms), "host=") THEN after_literal(Head(terms)) ELSE h)

RECURSIVE scan_port(_, _)
scan_port(terms, p) ==
    IF terms = <<>> THEN p
    ELSE scan_port(Tail(terms),
                   IF startswith(Head(terms), "port=") THEN after_literal(Head(terms)) ELSE p)

\* int(port) of Session.__init__ for a string of the symbols above
is_int(t) == t # <<>> /\ \A i \in 1..Len(t) : t[i] = "2"

RECURSIVE int(_)
int(t) == IF t = <<>> THEN 0 ELSE 10 * int(SubSeq(t, 1, Len(t) - 1)) + 2

\* is_proxy = 'host=' in command
is_proxy(cmd) == "host=" \in Range(cmd)

InitMain ==
    /\ mpc = "start"
    /\ envSet \in BOOLEAN
    /\ command \in Commands
    /\ ~envSet => command = <<>>
    /\ host = None
    /\ port = 0
    /\ caller \in Sizes
    /\ sizeEnv \in BOOLEAN
    /\ screen_size = <<>>
    /\ pty = <<>>
    /\ dispatched = "none"

\* main line 190: screen_size = [os.getenv('LINES', 80), os.getenv('COLUMNS', 300)];
\* a terminal of c columns and l lines exports COLUMNS=c and LINES=l
getenv_screen_size(set, term) == IF set THEN <<term[2], term[1]>> ELSE <<80, 300>>

\* init_connection line 145: urwid's get_cols_rows() of the picker's screen
get_cols_rows(term) == <<term[1], term[2]>>

\* _start_session line 116
is_interactive(set) == ~set

\* main, lines 179-211, up to session.connect(screen_size)
main ==
    /\ mpc = "start"
    /\ LET cmd == strip(command)      \* os.environ.get(..., '') is '' when unset
           terms == split(cmd, <<>>)
           h == scan_host(terms, None)
           p == scan_port(terms, None)
       IN IF is_proxy(cmd)
          THEN IF h = None
               THEN \* assert host is not None
                    /\ mpc' = "assertion_error"
                    /\ UNCHANGED <<host, port, screen_size>>
               ELSE IF p = None
               THEN /\ mpc' = "proxy"
                    /\ host' = h
                    /\ port' = DefaultPort
                    /\ screen_size' = getenv_screen_size(sizeEnv, caller)
               ELSE IF is_int(p)
               THEN /\ mpc' = "proxy"
                    /\ host' = h
                    /\ port' = int(p)
                    /\ screen_size' = getenv_screen_size(sizeEnv, caller)
               ELSE \* int(port) raises ValueError in Session.__init__
                    /\ mpc' = "value_error"
                    /\ UNCHANGED <<host, port, screen_size>>
          ELSE \* aker.build_tui()
               /\ mpc' = "picker"
               /\ UNCHANGED <<host, port, screen_size>>
    /\ UNCHANGED <<envSet, command, caller, sizeEnv, pty, dispatched>>
    /\ UNCHANGED <<loopVars, sessVars>>

\* Aker.init_connection lines 144-160, when the user picks a host in the
\* picker (the host picked is not tracked)
init_connection ==
    /\ mpc = "picker"
    /\ screen_size' = get_cols_rows(caller)
    /\ mpc' = "connected"
    /\ UNCHANGED <<envSet, command, host, port, caller, sizeEnv, pty, dispatched>>
    /\ UNCHANGED <<loopVars, sessVars>>

\* Client._start_session lines 109-122 in either path: columns, lines =
\* self._size; get_pty('xterm', columns, lines); invoke_shell or exec_command
start_session_dispatch ==
    /\ mpc \in {"proxy", "connected"}
    /\ pty' = <<screen_size[1], screen_size[2]>>
    /\ dispatched' = IF is_interactive(envSet) THEN "shell" ELSE "exec"
    /\ mpc' = "session"
    /\ UNCHANGED <<envSet, command, host, port, caller, sizeEnv, screen_size>>
    /\ UNCHANGED <<loopVars, sessVars>>

NextMain ==
    \/ main
    \/ init_connection
    \/ start_session_dispatch

MainInit == IdleLoop /\ IdleSession /\ InitMain

SpecMain == MainInit /\ [][NextMain]_vars

\* =================================================================== claims

\* C1: once interactive_shell has ended, by remote close, by an exception of a
\* read, write or hook, or by an exception out of the interrupted wait, the
\* terminal attributes equal those before the call and tcsetattr(oldtty) ran
\* exactly once; before that it did not run.
C1_TerminalRestored ==
    /\ lpc = "done" => (tty = ttyBefore /\ restores = 1)
    /\ lpc \in {"entry", "wait", "chan", "stdin"} => restores = 0

\* a cooked terminal, made raw by the loop, is cooked again after a handler
\* raised out of the wait
C1_Witness ==
    /\ lpc = "done"
    /\ exitCause = "signal_error"
    /\ ttyBefore = Flags
    /\ tty = Flags
    /\ setcbreak(setraw(ttyBefore)) # ttyBefore

\* C2: when the loop ends on the first zero-length read, the bytes written to
\* local output are exactly the bytes read from the channel before it, in
\* order (a chunk whose write blocked or was partial is not dropped).
C2_OutputEqualsReads == exitCause = "remote_close" => out = recvd

\* C3: a hook that raises does not end the loop, and the same hook is still
\* invoked on the sniffers attached after the one that raised: every sniffer
\* has seen the same calls.
C3_HookFailureIsolated ==
    /\ exitCause # "hook_error"
    /\ \A o \in Obs : /\ chanLog[o] = chanLog[1]
                      /\ stdinLog[o] = stdinLog[1]
                      /\ resizeLog[o] = resizeLog[1]

\* C4: once an agent key was accepted the key file is never read and no
\* password is prompted; once the key file authenticated no password is
\* prompted.
C4_NoLaterMethod ==
    /\ authBy = "agent" => (Count(events, "file_read") = 0 /\ Count(events, "prompt") = 0)
    /\ authBy = "file" => Count(events, "prompt") = 0

\* a session authenticated by an agent key ran to its end
C4_Witness ==
    /\ spc = "done"
    /\ authBy = "agent"
    /\ Len(agentKeys) = MaxKeys
    /\ Count(events, "channel_open") = 1

\* C5: when authentication is settled, every agent key up to the first
\* accepted one was tried; with no acceptable agent key the key file was
\* tried; with no acceptable agent key and no usable key file the prompt was
\* tried; and authentication failed only after all three.
FirstAccepted ==
    IF \E i \in 1..Len(agentKeys) : agentKeys[i]
    THEN CHOOSE i \in 1..Len(agentKeys) :
             agentKeys[i] /\ \A j \in 1..(i - 1) : ~agentKeys[j]
    ELSE 0
AuthSettled == authBy # "none" \/ failure \in {"key", "auth"}
C5_ChainFallsThrough ==
    AuthSettled =>
        /\ Count(events, "auth_agent")
               = (IF FirstAccepted # 0 THEN FirstAccepted ELSE Len(agentKeys))
        /\ FirstAccepted = 0 => Count(events, "file_read") = 1
        /\ (FirstAccepted = 0 /\ ~(fileLoadable /\ fileAccepted))
               => Count(events, "prompt") = 1
        /\ authBy = "none" =>
               (Count(events, "file_read") = 1 /\ Count(events, "prompt") = 1)

\* C6: when no resize notification is pending in an active session, the
\* remote pseudo-terminal has the size of the last notification and every
\* sniffer received one sigwinch call per notification, in order.
C6_ResizeDelivered ==
    (Running /\ ~sigPending /\ notes # <<>>) =>
        /\ ptySize = notes[Len(notes)]
        /\ \A o \in Obs : resizeLog[o] = notes

\* C7: a command with a token host=<name> (and well-formed port tokens, if
\* any) targets that host, on the port of a port=<n> token or 22; a command
\* with no token that begins with host= enters the host picker.
HostTokens == {t \in Range(split(strip(command), <<>>)) : startswith(t, "host=")}
PortTokens == {t \in Range(split(strip(command), <<>>)) : startswith(t, "port=")}
C7_CommandParsed ==
    mpc \in {"proxy", "picker", "assertion_error", "value_error"} =>
        /\ (HostTokens # {} /\ \A t \in PortTokens : is_int(Tail(t))) =>
               /\ mpc = "proxy"
               /\ host \in {Tail(t) : t \in HostTokens}
               /\ PortTokens = {} => port = 22
               /\ PortTokens # {} => port \in {int(Tail(t)) : t \in PortTokens}
        /\ HostTokens = {} => mpc = "picker"

\* C8: a call of close_session after the first one leaves the number of
\* completion notifications as it was.
C8_CloseIdempotent ==
    [][(closeCalls >= 1 /\ closeCalls' = closeCalls + 1) => notified' = notified]_vars

\* C9: the channel is closed before the transport, the transport before the
\* socket, and the completion callback is invoked only after the transport
\* and the socket were closed.
Before(a, i) == \E j \in 1..(i - 1) : events[j] = a
C9_TeardownOrder ==
    \A i \in 1..Len(events) :
        /\ events[i] = "callback" =>
               (Before("transport_close", i) /\ Before("socket_close", i))
        /\ events[i] = "socket_close" => Before("transport_close", i)
        /\ (events[i] = "transport_close" /\ Before("channel_open", i)) =>
               Before("channel_close", i)

\* C10: over one session the completion callback, the transport close and
\* the socket close are each performed at most once.
C10_ShutdownOnce ==
    /\ Count(events, "callback") <= 1
    /\ Count(events, "transport_close") <= 1
    /\ Count(events, "socket_close") <= 1

CloseEvents ==
    {"channel_close", "transport_close", "socket_close",
     "channel_close_failed", "transport_close_failed", "socket_close_failed"}

SessionOver == spc \in {"done", "aborted"}

\* C11: when a session whose channel was opened is over, whether the loop
\* returned or raised and whether or not a close call raised, the channel
\* close, the transport close and the socket close were each attempted.
C11_TeardownCompleted ==
    (SessionOver /\ "channel_open" \in Range(events)) =>
        /\ Attempted("channel_close")
        /\ Attempted("transport_close")
        /\ Attempted("socket_close")

\* C12: a session that failed while connecting, loading the credential,
\* starting the transport or authenticating ends with its socket closed, its
\* sniffers stopped and the completion callback notified.
C12_FailedSessionCleanedUp ==
    (SessionOver /\ failure \in {"connect", "key", "transport", "auth"}) =>
        /\ Attempted("socket_close")
        /\ "stop_sniffer" \in Range(events)
        /\ notified >= 1

C19_ResizeOnlyLiveChannel ==
    \A i, j \in 1..Len(events) :
        (i < j /\ events[i] \in {"channel_close", "transport_close"})
            => events[j] \notin {"resize_pty", "sniffer_sigwinch"}

\* C13: a session started while the original command is empty or absent
\* requests an interactive shell; exec_command is used only when the inbound
\* request carries a command string.
C13_ModeAndDispatchAgree ==
    (dispatched # "none" /\ command = <<>>) => dispatched = "shell"

\* C17: in both entry paths, when the caller's terminal size is known (from
\* the picker's screen, or from COLUMNS and LINES), the pty is allocated with
\* the caller's columns as its width and the caller's lines as its height.
C17_PtySizeIsCallers ==
    (pty # <<>> /\ (sizeEnv \/ ~is_proxy(strip(command)))) =>
        (pty[1] = caller[1] /\ pty[2] = caller[2])

\* C14: a signal that arrives while the loop waits in select does not end
\* the session: the loop never ends on the interrupted wait.
C14_SignalKeepsSession == exitCause # "select_error"

\* C15: once the local input has reached end of file (a zero-length local
\* read), the loop eventually exits, also when the remote side stays open and
\* silent.
C15_LoopExitsOnEof == stdinEof ~> (lpc = "done")

\* C16: at the end of every iteration the bytes accepted by the channel are
\* the concatenation of the local reads, also when a send took only a part of
\* its chunk.
C16_InputForwarded == lpc = "wait" => sent = stdinRead

\* C20: sys.stdin is non-blocking at every local read of the loop, and once
\* the loop has ended its O_NONBLOCK flag is what it was before the loop.
C20_StdinFlagsUnchanged ==
    /\ lpc = "stdin" => nonblock
    /\ lpc = "done" => nonblock = nonblockBefore

====
